---- MODULE Spec2Model ----
(***************************************************************************)
(* Model of src/engine/stream-engine.mjs: the persistent playlist player.  *)
(*                                                                         *)
(* The engine is one Node.js process.  Its synchronous code runs to the    *)
(* next await; signal handlers run only while main() is suspended (poll    *)
(* timer, clip delivery, transition delivery).  Other processes (the       *)
(* producers that edit playlist.json) may act between any two file         *)
(* accesses of the engine.                                                 *)
(*                                                                         *)
(* Time values (addedAt, startedAt) are modelled by the number that        *)
(* new Date(...) yields for them; only their order is used by the code.    *)
(***************************************************************************)
EXTENDS Integers, Sequences, FiniteSets, TLC

VARIABLES
    store,        \* playlist.json as it is on disk
    stateFile,    \* engine-state.json: <<>> when absent, <<record>> otherwise
    engineState,  \* the in-process engineState object
    pc,           \* where main() stands
    playlist,     \* const playlist of the current pass (the snapshot)
    played,       \* ids of the snapshot's clip objects carrying _played = true
    ordered,      \* const ordered of the current pass
    i,            \* the for-loop index of the current pass
    clip,         \* let clip of the current step
    code,         \* const code of the current step, -1 before playClip resolves
    pl,           \* const pl of the prune, between its read and its write
    inflight,     \* ffmpeg children of this run that have not closed yet
    failed,       \* ids of the clips whose attempt failed in the current pass
    exitCode,     \* the process's exit code, -1 while it runs
    runs,         \* number of process starts so far (the clock of startedAt)
    signalled,    \* a SIGINT/SIGTERM was handled in this run
    pruned,       \* PASS_COMPLETE has finished and no producer wrote since
    delivered,    \* ids of the clips picked at the steps of the current pass
    lastTransition \* how the last transition ended, until main() goes on

vars == <<store, stateFile, engineState, pc, playlist, played, ordered, i,
          clip, code, pl, inflight, failed, exitCode, runs, signalled,
          pruned, delivered, lastTransition>>

----------------------------------------------------------------------------
(* Bounds of the model *)

\* largest number of clips a producer puts in playlist.json (engine model)
MaxStore == 3
\* clip attempts after which Spec starts no further step
MaxPlayed == 2
\* process starts explored
MaxRuns == 2
\* longest playlist given to getOrderedClips in SpecOrder
MaxLen == 4
\* clip attempts after which SpecRun starts no further step
MaxSteps == 3

----------------------------------------------------------------------------
(* Clips and playlist files *)

Priorities == {"pinned", "breaking", "normal", "filler"}

Clip(id, priority, position, addedAt) ==
    [id |-> id, priority |-> priority, position |-> position, addedAt |-> addedAt]

NoClip == Clip("null", "none", 0, 0)

\* the clips the producers of the engine model choose from, in the order
\* in which a producer lists them in the file
Catalogue == <<Clip("x", "normal", 0, 1),
               Clip("y", "normal", 0, 2),
               Clip("w", "breaking", 0, 3),
               Clip("v", "breaking", 0, 4),
               Clip("u", "urgent", 0, 5)>>

Range(s) == {s[k] : k \in 1..Len(s)}

Ids(s) == {s[k].id : k \in 1..Len(s)}

\* contents of playlist.json: no file, text that JSON.parse rejects, a JSON
\* object without a clips array, or an object with a clips array
FileMissing == [kind |-> "missing", clips |-> <<>>]
FileMalformed == [kind |-> "malformed", clips |-> <<>>]
FileNoClips == [kind |-> "noclips", clips |-> <<>>]
FileOf(clips) == [kind |-> "ok", clips |-> clips]

\* what loadPlaylist returns for null
Null == [kind |-> "null", clips |-> <<>>]

loadPlaylistEmptyWhenMissing(file) ==
    IF file.kind = "missing" THEN FileOf(<<>>)
    ELSE IF file.kind = "malformed" THEN Null ELSE file

loadPlaylist(file) ==
    IF file.kind \in {"missing", "malformed"} THEN Null ELSE file

----------------------------------------------------------------------------
(* Ordering policy *)

Position(c) == c.position

PinnedCmp(a, b) == Position(a) - Position(b)

BreakingCmpAscending(a, b) == a.addedAt - b.addedAt

BreakingCmp(a, b) == b.addedAt - a.addedAt

NormalCmp(a, b) == a.addedAt - b.addedAt

\* the compare function given to sort for the clips of one priority
Compare(tier, a, b) ==
    CASE tier = "pinned" -> PinnedCmp(a, b)
      [] tier = "breaking" -> BreakingCmp(a, b)
      [] OTHER -> NormalCmp(a, b)

\* Array.prototype.sort is stable: x goes after every element that does
\* not compare greater than it
RECURSIVE InsertSorted(_, _, _)
InsertSorted(s, x, tier) ==
    IF s = <<>> THEN <<x>>
    ELSE IF Compare(tier, s[Len(s)], x) <= 0 THEN Append(s, x)
    ELSE Append(InsertSorted(SubSeq(s, 1, Len(s) - 1), x, tier), s[Len(s)])

RECURSIVE SortUpTo(_, _, _)
SortUpTo(s, n, tier) ==
    IF n = 0 THEN <<>>
    ELSE InsertSorted(SortUpTo(s, n - 1, tier), s[n], tier)

Sort(s, tier) == SortUpTo(s, Len(s), tier)

IsPriority(c, p) == c.priority = p

Filter(s, p) == SelectSeq(s, LAMBDA c : IsPriority(c, p))

getOrderedClips(p) ==
    IF p.kind # "ok" \/ Len(p.clips) = 0 THEN <<>>
    ELSE Sort(Filter(p.clips, "pinned"), "pinned")
         \o Sort(Filter(p.clips, "breaking"), "breaking")
         \o Sort(Filter(p.clips, "normal"), "normal")
         \o Filter(p.clips, "filler")

----------------------------------------------------------------------------
(* Engine state *)

Defaults(startedAt) ==
    [running |-> TRUE, currentClipId |-> "null", currentIndex |-> 0,
     loopCount |-> 0, startedAt |-> startedAt, clipsPlayed |-> 0, errors |-> 0]

\* { ...engineState, ...JSON.parse(file) }: a field of the file overrides
\* the field of the same name in memory
MergeState(mem, file) ==
    [f \in DOMAIN mem |-> IF f \in DOMAIN file THEN file[f] ELSE mem[f]]

loadStateDefaults(mem, file) == mem

loadState(mem, file) ==
    IF file = <<>> THEN mem ELSE MergeState(mem, file[1])

saveStateNoCounters(mem) == <<[mem EXCEPT !.clipsPlayed = 0, !.errors = 0]>>

saveState(mem) == <<mem>>

----------------------------------------------------------------------------
(* The engine: main() and the signal handlers *)

\* the local variables of a pass, as they are outside of a pass
NoPass ==
    /\ playlist' = Null
    /\ played' = {}
    /\ ordered' = <<>>
    /\ i' = 0
    /\ clip' = NoClip
    /\ code' = -1
    /\ pl' = Null
    /\ failed' = {}
    /\ delivered' = <<>>
    /\ lastTransition' = "none"

Init ==
    /\ store = FileMissing
    /\ stateFile = <<>>
    /\ engineState = Defaults(1)
    /\ pc = "load_state"
    /\ playlist = Null
    /\ played = {}
    /\ ordered = <<>>
    /\ i = 0
    /\ clip = NoClip
    /\ code = -1
    /\ pl = Null
    /\ inflight = 0
    /\ failed = {}
    /\ exitCode = -1
    /\ runs = 1
    /\ signalled = FALSE
    /\ pruned = FALSE
    /\ delivered = <<>>
    /\ lastTransition = "none"

\* main(): loadState()
LoadState ==
    /\ pc = "load_state"
    /\ engineState' = loadState(engineState, stateFile)
    /\ pc' = "await_playlist"
    /\ UNCHANGED <<store, stateFile, playlist, played, ordered, i, clip, code, pl, inflight, failed,
                   exitCode, runs, signalled, pruned, delivered,
                   lastTransition>>

\* while (engineState.running): the guard is false, main() returns and the
\* process ends with nothing left to run
LoopExit ==
    /\ pc = "await_playlist"
    /\ ~engineState.running
    /\ pc' = "stopped"
    /\ exitCode' = 0
    /\ UNCHANGED <<store, stateFile, engineState, playlist, played, ordered,
                   i, clip, code, pl, inflight, failed, runs, signalled, pruned, delivered,
                   lastTransition>>

FirstIndexResumed(st) == st.currentIndex

\* for (let i = 0; ...): the index a pass starts at
FirstIndex(st) == 0

\* top of the while loop: loadPlaylist and getOrderedClips; wait 10 s when
\* there is no playlist or no ordered clip, else enter the for loop
AwaitPlaylist ==
    /\ pc = "await_playlist"
    /\ engineState.running
    /\ LET p == loadPlaylist(store)
           o == getOrderedClips(p)
       IN IF p = Null \/ Len(o) = 0
          THEN /\ pc' = "poll_wait"
               /\ UNCHANGED <<playlist, ordered>>
          ELSE /\ pc' = "play_step"
               /\ playlist' = p
               /\ ordered' = o
    /\ played' = {}
    /\ i' = IF pc' = "play_step" THEN FirstIndex(engineState) ELSE 0
    /\ UNCHANGED <<store, stateFile, engineState, clip, code, pl, inflight, failed, exitCode, runs,
                   signalled, pruned, delivered,
                   lastTransition>>

\* the 10 s timer fires: continue
PollWake ==
    /\ pc = "poll_wait"
    /\ pc' = "await_playlist"
    /\ UNCHANGED <<store, stateFile, engineState, playlist, played, ordered,
                   i, clip, code, pl, inflight, failed, exitCode, runs, signalled, pruned, delivered,
                   lastTransition>>

\* freshPlaylist || playlist
FreshOrSnapshot(fresh, snapshot) == IF fresh = Null THEN snapshot ELSE fresh

PendingBreakingMarkedById(fresh, snapshot, marks) ==
    SelectSeq(getOrderedClips(FreshOrSnapshot(fresh, snapshot)),
              LAMBDA c : IsPriority(c, "breaking") /\ c.id \notin marks)

\* freshOrdered.filter(c => c.priority === 'breaking' && !c._played): only
\* the objects of the snapshot can carry a mark, a fresh parse has none
PendingBreaking(fresh, snapshot, marks) ==
    SelectSeq(getOrderedClips(FreshOrSnapshot(fresh, snapshot)),
              LAMBDA c : /\ IsPriority(c, "breaking")
                         /\ ~(fresh = Null /\ c.id \in marks))

SubstitutesAlways(breaking, idx) == Len(breaking) > 0

SubstitutesFromSecond(breaking, idx) == Len(breaking) > 0 /\ idx > 1

\* breaking.length > 0 && i > 0
Substitutes(breaking, idx) == Len(breaking) > 0 /\ idx > 0

SelectClipPrevious(breaking, base, idx) ==
    IF Substitutes(breaking, idx) THEN breaking[1]
    ELSE base[IF idx > 0 THEN idx ELSE 1]

SelectClipOldest(breaking, base, idx) ==
    IF Substitutes(breaking, idx) THEN breaking[Len(breaking)] ELSE base[idx + 1]

\* the clip of the step
SelectClip(breaking, base, idx) ==
    IF Substitutes(breaking, idx) THEN breaking[1] ELSE base[idx + 1]

CountAttemptOnSuccess(st, result) ==
    IF result # 0 THEN [st EXCEPT !.errors = @ + 1]
    ELSE [st EXCEPT !.clipsPlayed = @ + 1]

\* code !== 0 counts an error; every attempt counts a clip
CountAttempt(st, result) ==
    [st EXCEPT !.errors = IF result # 0 THEN @ + 1 ELSE @,
               !.clipsPlayed = @ + 1]

StepStateIdOnly(st, c, idx) == [st EXCEPT !.currentClipId = c.id]

\* engineState.currentClipId = clip.id; engineState.currentIndex = i
StepState(st, c, idx) ==
    [st EXCEPT !.currentClipId = c.id, !.currentIndex = idx]

\* spawn('ffmpeg', ...): one more child
AfterSpawn(n) == n + 1

AfterCloseNotAwaited(n) == n

\* the awaited promise resolves on the child's close (or error) event
AfterClose(n) == n - 1

\* the clips that failed in this pass, after an attempt of c with this result
FailedAfter(set, c, result) == IF result # 0 THEN set \cup {c.id} ELSE set

\* one iteration of the for loop up to the await of playClip: reload, pick
\* the clip, saveState, then playClip.  When the clip file does not exist
\* playClip resolves 1 at once and the loop goes on to playTransition
\* without suspending.
PlayStep(fileExists) ==
    /\ pc = "play_step"
    /\ LET fresh == loadPlaylist(store)
           breaking == PendingBreaking(fresh, playlist, played)
           c == SelectClip(breaking, ordered, i)
           st == StepState(engineState, c, i)
       IN /\ clip' = c
          /\ delivered' = Append(delivered, c.id)
          /\ played' = IF Substitutes(breaking, i) /\ fresh = Null
                       THEN played \cup {c.id} ELSE played
          /\ stateFile' = saveState(st)
          /\ IF fileExists
             THEN /\ engineState' = st
                  /\ code' = -1
                  /\ failed' = failed
                  /\ pc' = "clip"
             ELSE /\ engineState' = CountAttempt(st, 1)
                  /\ code' = 1
                  /\ failed' = FailedAfter(failed, c, 1)
                  /\ pc' = "transition"
    /\ inflight' = AfterSpawn(inflight)
    /\ lastTransition' = "none"
    /\ UNCHANGED <<store, playlist, ordered, i, pl, exitCode, runs,
                   signalled, pruned>>

\* ffmpeg closes with an exit code (or fails to start: resolve(1)); the
\* loop counts the attempt and starts playTransition
ClipEnd(exit) ==
    /\ pc = "clip"
    /\ code' = exit
    /\ engineState' = CountAttempt(engineState, exit)
    /\ failed' = FailedAfter(failed, clip, exit)
    /\ inflight' = AfterSpawn(AfterClose(inflight))
    /\ pc' = "transition"
    /\ UNCHANGED <<store, stateFile, playlist, played, ordered, i, clip, pl,
                   exitCode, runs, signalled, pruned, delivered,
                   lastTransition>>

MoreStepsButLast(idx, base) == idx + 2 < Len(base)

\* i++ and the test i < ordered.length of the for loop
MoreSteps(idx, base) == idx + 1 < Len(base)

AfterTransitionCounted(st, ok) ==
    IF ok THEN st ELSE [st EXCEPT !.errors = @ + 1]

\* playTransition resolves without a value on 'close' and on 'error' alike
\* and main() reads nothing from it: the state after a transition
AfterTransition(st, ok) == st

\* the transition's ffmpeg ends (ok) or fails to run (~ok): i++
TransitionEnd(ok) ==
    /\ pc = "transition"
    /\ engineState' = AfterTransition(engineState, ok)
    /\ clip' = NoClip
    /\ code' = -1
    /\ inflight' = AfterClose(inflight)
    /\ lastTransition' = IF ok THEN "ok" ELSE "failed"
    /\ IF MoreSteps(i, ordered)
       THEN /\ i' = i + 1
            /\ pc' = "play_step"
       ELSE /\ i' = i
            /\ pc' = "pass_complete"
    /\ UNCHANGED <<store, stateFile, playlist, played, ordered,
                   pl, failed, exitCode, runs, signalled, pruned, delivered>>

PruneFilterNormal(clips) == SelectSeq(clips, LAMBDA c : ~IsPriority(c, "normal"))

PruneFilterKnown(clips) ==
    SelectSeq(clips, LAMBDA c : c.priority \in Priorities \ {"breaking"})

\* pl.clips.filter(c => c.priority !== 'breaking')
PruneFilter(clips) == SelectSeq(clips, LAMBDA c : ~IsPriority(c, "breaking"))

CountLoopNever(st) == st

\* engineState.loopCount++
CountLoop(st) == [st EXCEPT !.loopCount = @ + 1]

\* after the for loop: loopCount++, saveState, read the store for the
\* prune.  No playlist: nothing is written.  An object without a clips
\* array: pl.clips.filter throws, main() rejects, process.exit(1).
PassComplete ==
    /\ pc = "pass_complete"
    /\ engineState' = CountLoop(engineState)
    /\ stateFile' = saveState(engineState')
    /\ LET p == loadPlaylist(store)
       IN IF p = Null
          THEN /\ pc' = "await_playlist"
               /\ pruned' = TRUE
               /\ NoPass
               /\ UNCHANGED exitCode
          ELSE IF p.kind = "noclips"
          THEN /\ pc' = "crashed"
               /\ exitCode' = 1
               /\ NoPass
               /\ UNCHANGED pruned
          ELSE /\ pc' = "prune_write"
               /\ pl' = [p EXCEPT !.clips = PruneFilter(p.clips)]
               /\ lastTransition' = "none"
               /\ UNCHANGED <<playlist, played, ordered, i, clip, code,
                              failed, exitCode, pruned, delivered>>
    /\ UNCHANGED <<store, inflight, runs, signalled>>

WriteFileSkipped(current, content) == current

\* writeFileSync(path, content): the file's content is replaced, whatever
\* it was
WriteFile(current, content) == content

\* writeFileSync(PLAYLIST, JSON.stringify(pl)), end of the while body
PruneWrite ==
    /\ pc = "prune_write"
    /\ store' = WriteFile(store, pl)
    /\ pc' = "await_playlist"
    /\ pruned' = TRUE
    /\ NoPass
    /\ UNCHANGED <<stateFile, engineState, inflight, exitCode, runs,
                   signalled>>

\* main() is suspended: in the poll timer or in a delivery
Suspended == pc \in {"poll_wait", "clip", "transition"}

StopStateReset(st) == [Defaults(st.startedAt) EXCEPT !.running = FALSE]

\* the state the handler writes
StopState(st) == [st EXCEPT !.running = FALSE]

\* SIGINT / SIGTERM handler: running = false, saveState, process.exit(0);
\* a child that is still running is not waited for
Signal ==
    /\ Suspended
    /\ engineState' = StopState(engineState)
    /\ stateFile' = saveState(engineState')
    /\ pc' = "stopped"
    /\ exitCode' = 0
    /\ signalled' = TRUE
    /\ NoPass
    /\ UNCHANGED <<store, inflight, runs, pruned>>

\* the engine is started again: module load sets engineState to its
\* defaults, startedAt being the time of this start
Restart ==
    /\ pc \in {"stopped", "crashed"}
    /\ runs < MaxRuns
    /\ runs' = runs + 1
    /\ engineState' = Defaults(runs')
    /\ pc' = "load_state"
    /\ exitCode' = -1
    /\ signalled' = FALSE
    /\ inflight' = 0
    /\ UNCHANGED <<store, stateFile, playlist, played, ordered, i, clip,
                   code, pl, failed, pruned, delivered,
                   lastTransition>>

----------------------------------------------------------------------------
(* The producers: other processes that edit playlist.json *)

\* the clips of the catalogue whose ids are in S, in catalogue order
Listing(S) == SelectSeq(Catalogue, LAMBDA c : c.id \in S)

\* a producer adds a clip (creating the file when there is no readable one)
AddClip(c) ==
    /\ c.id \notin Ids(store.clips)
    /\ Len(store.clips) < MaxStore
    /\ store' = FileOf(Listing(Ids(store.clips) \cup {c.id}))
    /\ pruned' = FALSE
    /\ UNCHANGED <<stateFile, engineState, pc, playlist, played, ordered, i,
                   clip, code, pl, inflight, failed, exitCode, runs, signalled, delivered,
                   lastTransition>>

\* a producer removes a clip
RemoveClip(c) ==
    /\ store.kind = "ok"
    /\ c.id \in Ids(store.clips)
    /\ store' = FileOf(Listing(Ids(store.clips) \ {c.id}))
    /\ pruned' = FALSE
    /\ UNCHANGED <<stateFile, engineState, pc, playlist, played, ordered, i,
                   clip, code, pl, inflight, failed, exitCode, runs, signalled, delivered,
                   lastTransition>>

\* the file is deleted, or left with text that is no JSON, or with a JSON
\* object that has no clips array
ReplaceFile(file) ==
    /\ store # file
    /\ store' = file
    /\ pruned' = FALSE
    /\ UNCHANGED <<stateFile, engineState, pc, playlist, played, ordered, i,
                   clip, code, pl, inflight, failed, exitCode, runs, signalled, delivered,
                   lastTransition>>

Producer ==
    \/ \E c \in Range(Catalogue) : AddClip(c)
    \/ \E c \in Range(Catalogue) : RemoveClip(c)
    \/ \E f \in {FileMissing, FileMalformed, FileNoClips} : ReplaceFile(f)

\* the model starts a step only while fewer than n clips were attempted
AttemptsBelow(n) == engineState.clipsPlayed < n

Engine ==
    \/ LoadState
    \/ LoopExit
    \/ AwaitPlaylist
    \/ PollWake
    \/ \E fileExists \in BOOLEAN : AttemptsBelow(MaxPlayed) /\ PlayStep(fileExists)
    \/ \E exit \in {0, 1} : ClipEnd(exit)
    \/ \E ok \in BOOLEAN : TransitionEnd(ok)
    \/ PassComplete
    \/ PruneWrite

Next ==
    \/ Engine
    \/ Signal
    \/ Restart
    \/ Producer

Spec == Init /\ [][Next]_vars

\* the engine's own steps are not postponed for ever: the poll timer fires,
\* every delivery ends, synchronous code runs on
LiveSpec == Init /\ [][Next]_vars /\ WF_vars(Engine)

\* one run of the engine that gets no stop request and whose deliveries
\* all succeed, followed for up to MaxSteps clip attempts
RunNext ==
    \/ LoadState
    \/ AwaitPlaylist
    \/ PollWake
    \/ AttemptsBelow(MaxSteps) /\ PlayStep(TRUE)
    \/ ClipEnd(0)
    \/ TransitionEnd(TRUE)
    \/ PassComplete
    \/ PruneWrite
    \/ Producer

SpecRun == Init /\ [][RunNext]_vars

----------------------------------------------------------------------------
(* getOrderedClips on its own: every playlist of at most MaxLen clips *)

OrderIds == <<"a", "b", "c", "d", "e", "f">>

\* a clip's priority (one of the four, or the unrecognized "urgent"), its
\* position when pinned and its addedAt otherwise
OrderChoices ==
    {<<"pinned", pos, 0>> : pos \in 0..1}
    \cup ({"breaking", "normal", "filler", "urgent"} \X {0} \X (0..1))

\* the playlist of n clips whose k-th clip is made of choice f[k]
OrderInput(n, f) == [k \in 1..n |-> Clip(OrderIds[k], f[k][1], f[k][2], f[k][3])]

OrderInit ==
    /\ \E n \in 0..MaxLen : \E f \in [1..n -> OrderChoices] :
           store = FileOf(OrderInput(n, f))
    /\ pc = "order_input"
    /\ stateFile = <<>>
    /\ engineState = Defaults(1)
    /\ playlist = Null
    /\ played = {}
    /\ ordered = <<>>
    /\ i = 0
    /\ clip = NoClip
    /\ code = -1
    /\ pl = Null
    /\ inflight = 0
    /\ failed = {}
    /\ exitCode = -1
    /\ runs = 1
    /\ signalled = FALSE
    /\ pruned = FALSE
    /\ delivered = <<>>
    /\ lastTransition = "none"

\* const ordered = getOrderedClips(playlist)
ComputeOrder ==
    /\ pc = "order_input"
    /\ playlist' = loadPlaylist(store)
    /\ ordered' = getOrderedClips(playlist')
    /\ pc' = "order_result"
    /\ UNCHANGED <<store, stateFile, engineState, played, i, clip, code, pl, inflight, failed,
                   exitCode, runs, signalled, pruned, delivered,
                   lastTransition>>

OrderNext == ComputeOrder

SpecOrder == OrderInit /\ [][OrderNext]_vars

----------------------------------------------------------------------------
(* Claims about the ordering policy *)

TierRank(c) ==
    CASE c.priority = "pinned" -> 1
      [] c.priority = "breaking" -> 2
      [] c.priority = "normal" -> 3
      [] OTHER -> 4

Recognized(clips) == {c \in Range(clips) : c.priority \in Priorities}

\* C1: getOrderedClips returns the clips of the four priorities, each once,
\* as pinned ++ breaking ++ normal ++ filler, pinned by ascending position,
\* breaking by descending addedAt, normal by ascending addedAt.
C1_TierOrder ==
    pc = "order_result" =>
        /\ Range(ordered) = Recognized(store.clips)
        /\ Len(ordered) = Cardinality(Recognized(store.clips))
        /\ \A a, b \in 1..Len(ordered) :
               a < b =>
                   /\ TierRank(ordered[a]) <= TierRank(ordered[b])
                   /\ (ordered[a].priority = "pinned" /\ ordered[b].priority = "pinned")
                          => ordered[a].position <= ordered[b].position
                   /\ (ordered[a].priority = "breaking" /\ ordered[b].priority = "breaking")
                          => ordered[a].addedAt >= ordered[b].addedAt
                   /\ (ordered[a].priority = "normal" /\ ordered[b].priority = "normal")
                          => ordered[a].addedAt <= ordered[b].addedAt

\* the scenario of C1: pinned a (position 1), pinned b (position 0),
\* normal c (addedAt 1), normal d (addedAt 0) gives b, a, d, c; and a
\* playlist with two breaking clips, the newer one first
C1_Witness ==
    \/ /\ pc = "order_result"
       /\ store.clips = <<Clip("a", "pinned", 1, 0), Clip("b", "pinned", 0, 0),
                          Clip("c", "normal", 0, 1), Clip("d", "normal", 0, 0)>>
       /\ [k \in 1..Len(ordered) |-> ordered[k].id] = <<"b", "a", "d", "c">>
    \/ /\ pc = "order_result"
       /\ store.clips = <<Clip("a", "normal", 0, 0), Clip("b", "breaking", 0, 0),
                          Clip("c", "breaking", 0, 1), Clip("d", "pinned", 0, 0)>>
       /\ [k \in 1..Len(ordered) |-> ordered[k].id] = <<"d", "c", "b", "a">>

\* C2: a clip of unrecognized priority is kept, once, in the filler
\* bucket: the ordered sequence has as many clips as the playlist and the
\* clip comes after every pinned, breaking and normal clip.
C2_UnrecognizedIsFiller ==
    pc = "order_result" =>
        /\ Len(ordered) = Len(store.clips)
        /\ \A c \in Range(store.clips) \ Recognized(store.clips) :
               \E a \in 1..Len(ordered) :
                   /\ ordered[a] = c
                   /\ \A b \in 1..Len(ordered) :
                          ordered[b].priority \in {"pinned", "breaking", "normal"}
                              => b < a

----------------------------------------------------------------------------
(* Claims about the scheduler loop *)

Breaking(clips) == {c \in Range(clips) : c.priority = "breaking"}

\* a step of the for loop has picked its clip and called playClip
StepTaken == pc = "play_step" /\ pc' \in {"clip", "transition"}

\* C3: at a step i > 0, when the reloaded playlist holds a breaking clip
\* that was not in the playlist when the pass began, the step delivers the
\* breaking clip of the reloaded playlist with the greatest addedAt, not
\* the clip of the base plan.
C3_BreakingPreempts ==
    [][(/\ StepTaken
        /\ i > 0
        /\ loadPlaylist(store) # Null
        /\ \E c \in Breaking(store.clips) : c.id \notin Ids(playlist.clips))
       => /\ clip' \in Breaking(store.clips)
          /\ \A c \in Breaking(store.clips) : c.addedAt <= clip'.addedAt
          /\ engineState'.currentClipId = clip'.id]_vars

\* step 1 of a pass delivers a breaking clip that is in the store and was
\* not in the playlist of the pass, instead of the base order's second clip
C3_Witness ==
    /\ pc = "clip"
    /\ i = 1
    /\ clip.priority = "breaking"
    /\ clip \in Range(store.clips)
    /\ clip.id \notin Ids(playlist.clips)
    /\ Len(ordered) >= 2
    /\ ordered[2].priority = "normal"

\* C4: once PASS_COMPLETE has finished, and until a producer writes, the
\* store holds no breaking clip.
C4_NoBreakingAfterPass ==
    pruned => Breaking(store.clips) = {}

\* a pass whose last delivered clip was the breaking clip w has completed,
\* the store is readable and w is gone from it
C4_Witness ==
    /\ pruned
    /\ pc = "await_playlist"
    /\ store.kind = "ok"
    /\ Len(store.clips) > 0
    /\ engineState.currentClipId = "w"
    /\ engineState.loopCount > 0

\* C5: the loop is left (STOPPED) only after a stop request was received
\* in the same run.
C5_StoppedOnlyOnRequest ==
    pc = "stopped" => signalled

\* C6: loadState with an Engine State file present leaves loopCount,
\* clipsPlayed, errors and startedAt equal to the persisted values; and
\* the persisted startedAt, once written, never changes.
C6_RestartResumes ==
    /\ [][(pc = "load_state" /\ pc' # "load_state" /\ stateFile # <<>>)
          => /\ engineState'.loopCount = stateFile[1].loopCount
             /\ engineState'.clipsPlayed = stateFile[1].clipsPlayed
             /\ engineState'.errors = stateFile[1].errors
             /\ engineState'.startedAt = stateFile[1].startedAt]_vars
    /\ [][stateFile # <<>>
          => /\ stateFile' # <<>>
             /\ stateFile'[1].startedAt = stateFile[1].startedAt]_vars

\* the second run has loaded the state of the first: its counters are not
\* zero and startedAt is the first start, not the second
C6_Witness ==
    /\ runs = 2
    /\ pc = "await_playlist"
    /\ engineState.startedAt = 1
    /\ engineState.clipsPlayed > 0
    /\ engineState.errors > 0
    /\ engineState.loopCount > 0

\* C7: a clip attempt that fails (file missing, or non-zero outcome of the
\* delivery) adds exactly 1 to errors and 1 to clipsPlayed and the loop
\* goes on to the transition; the transition leads to the next step or to
\* pass completion.
C7_FailedClipIsSkipped ==
    /\ [][(pc \in {"play_step", "clip"} /\ code' # -1 /\ code' # 0)
          => /\ engineState'.errors = engineState.errors + 1
             /\ engineState'.clipsPlayed = engineState.clipsPlayed + 1
             /\ pc' = "transition"]_vars
    /\ [][(pc = "transition" /\ pc' # "transition" /\ ~signalled')
          => pc' \in {"play_step", "pass_complete"}]_vars

\* a failed attempt is followed by its transition, with both counters
\* one higher than what was persisted before the attempt
C7_Witness ==
    /\ pc = "transition"
    /\ code = 1
    /\ engineState.errors = stateFile[1].errors + 1
    /\ engineState.clipsPlayed = stateFile[1].clipsPlayed + 1

\* C8: whatever the store presents at a read point, the engine does not
\* exit or fail.
C8_StoreNeverFatal ==
    pc # "crashed" /\ exitCode # 1

\* C10: a stop request at a suspension point rewrites the Engine State
\* file at once with running = false and the in-memory counters of that
\* moment, the process exits with code 0 and starts no further delivery.
C10_Shutdown ==
    /\ [](signalled => /\ pc = "stopped"
                       /\ exitCode = 0
                       /\ ~engineState.running
                       /\ stateFile = <<engineState>>)
    /\ [][(~signalled /\ signalled')
          => /\ Suspended
             /\ stateFile' = <<[engineState EXCEPT !.running = FALSE]>>]_vars

\* a stop request during the delivery of step 0, after which the file has
\* the index and clip id of that step and running = false
C10_Witness ==
    /\ signalled
    /\ pc = "stopped"
    /\ ~stateFile[1].running
    /\ stateFile[1].clipsPlayed = 1
    /\ stateFile[1].errors = 1
    /\ stateFile[1].currentClipId = "x"

\* the model starts no further step
AtBound == engineState.clipsPlayed >= MaxPlayed

Ended == pc \in {"stopped", "crashed"}

Delivering == pc \in {"clip", "transition"}

\* the playlists with at least one clip that a producer can write
ValidStores ==
    {FileOf(Listing(S)) :
        S \in {T \in SUBSET Ids(Catalogue) : Cardinality(T) \in 1..MaxStore}}

\* with the store file deleted the engine does not crash
C9_NoCrash == [][(store = FileMissing /\ pc # "crashed") => pc' # "crashed"]_vars

\* while the file stays deleted a running engine comes to the polling wait
C9_ReachesPollWait ==
    (store = FileMissing) ~> (pc = "poll_wait" \/ store # FileMissing \/ Ended \/ AtBound)

\* from the polling wait, with a playlist of at least one clip in the
\* store, a running engine comes to deliver a clip
C9_Resumes ==
    \A s \in ValidStores :
        (pc = "poll_wait" /\ store = s) ~> (Delivering \/ store # s \/ Ended \/ AtBound)

\* C9: if the store file is deleted the engine does not crash and comes to
\* the polling wait, and once the file is back with a valid playlist of at
\* least one clip it starts a pass and delivers clips again.
C9_ResumesAfterDeletion ==
    /\ C9_NoCrash
    /\ C9_ReachesPollWait
    /\ C9_Resumes

----------------------------------------------------------------------------
(* Claims about the steps of a pass, persistence and the prune *)

\* C11: step 0 of a pass delivers the first clip of the base order, even
\* with breaking clips pending in the store; a clip other than the base
\* order's is delivered only at a step i > 0.
C11_FirstStepIsBasePlan ==
    /\ [][(StepTaken /\ i = 0) => clip' = ordered[1]]_vars
    /\ [][(StepTaken /\ clip' # ordered[i + 1]) => i > 0]_vars

\* step 0 is in delivery with the base order's first clip, a normal one,
\* while the store holds a breaking clip that the pass's playlist has not
C11_Witness ==
    /\ pc = "clip"
    /\ i = 0
    /\ clip = ordered[1]
    /\ clip.priority = "normal"
    /\ \E c \in Breaking(store.clips) : c.id \notin Ids(playlist.clips)

\* C12: only breaking clips that are new since the pass began substitute:
\* a step that delivers another clip than the base plan's delivers a clip
\* that was not in the playlist when the pass was built.
C12_OnlyNewBreakingSubstitutes ==
    [][(StepTaken /\ clip' # ordered[i + 1])
       => clip'.id \notin Ids(playlist.clips)]_vars

\* C13: a clip whose attempt failed at a step of a pass is not delivered
\* again at a later step of the same pass.
C13_NoRetryInPass ==
    [][StepTaken => clip'.id \notin failed]_vars

\* C14: every step is one clip attempt followed by one transition and adds
\* exactly 1 to clipsPlayed: a transition starts only out of a clip
\* attempt, with clipsPlayed one higher; clipsPlayed changes at no other
\* step of a run; a clip attempt starts only at the start of a pass or
\* after a transition has ended.
C14_AttemptThenTransition ==
    /\ [][(pc # "transition" /\ pc' = "transition")
          => /\ pc \in {"play_step", "clip"}
             /\ engineState'.clipsPlayed = engineState.clipsPlayed + 1]_vars
    /\ [][(pc \notin {"load_state", "stopped", "crashed"}
           /\ engineState'.clipsPlayed # engineState.clipsPlayed)
          => (pc # "transition" /\ pc' = "transition")]_vars
    /\ [][(pc = "clip" /\ pc' # "clip") => pc' \in {"transition", "stopped"}]_vars
    /\ [][(pc # "play_step" /\ pc' = "play_step")
          => pc \in {"await_playlist", "transition"}]_vars
    /\ [][(pc = "await_playlist" /\ pc' # "await_playlist")
          => pc' \in {"play_step", "poll_wait", "stopped"}]_vars

\* the transition of a successful attempt is in delivery, clipsPlayed one
\* higher than what was persisted before the attempt, errors unchanged
C14_Witness ==
    /\ pc = "transition"
    /\ code = 0
    /\ engineState.clipsPlayed = stateFile[1].clipsPlayed + 1
    /\ engineState.errors = stateFile[1].errors

\* C15: within a run at most one ffmpeg child is in flight, and one is in
\* flight exactly while a clip or a transition is being delivered.
C15_OneDeliveryInFlight ==
    /\ inflight \in {0, 1}
    /\ pc \in {"clip", "transition"} => inflight = 1
    /\ pc \in {"load_state", "await_playlist", "poll_wait", "play_step",
               "pass_complete", "prune_write"} => inflight = 0

\* a transition is in flight after the clip's child has closed
C15_Witness ==
    /\ pc = "transition"
    /\ inflight = 1
    /\ i = 1
    /\ code = 0

\* C16: while the delivery of a clip is in flight at step i, the persisted
\* Engine State has currentIndex = i and currentClipId = the id of the
\* clip being delivered.
C16_PersistBeforeDeliver ==
    pc = "clip" =>
        /\ stateFile # <<>>
        /\ stateFile[1].currentIndex = i
        /\ stateFile[1].currentClipId = clip.id

\* step 1 delivers a substituted breaking clip and the file names it
C16_Witness ==
    /\ pc = "clip"
    /\ i = 1
    /\ clip.priority = "breaking"
    /\ clip # ordered[2]
    /\ stateFile[1].currentIndex = 1
    /\ stateFile[1].currentClipId = clip.id

SameCounters(a, b) == a.clipsPlayed = b.clipsPlayed /\ a.errors = b.errors

\* C17 as stated: once a clip attempt has finished, the persisted
\* clipsPlayed and errors include it before the transition is started.
C17_PersistedAfterAttempt ==
    pc = "transition" => SameCounters(stateFile[1], engineState)

\* C17 as amended: the persisted clipsPlayed and errors include every
\* finished attempt of the run when the next clip attempt is started and
\* when the pass completes.
C17_PersistedBeforeNextClip ==
    /\ [][StepTaken => SameCounters(stateFile'[1], engineState)]_vars
    /\ [][(pc = "pass_complete" /\ pc' # "pass_complete")
          => SameCounters(stateFile'[1], engineState)]_vars

\* step 1 is in delivery and the file has the attempt of step 0
C17_Witness ==
    /\ pc = "clip"
    /\ i = 1
    /\ stateFile[1].clipsPlayed = 1
    /\ stateFile[1].errors = 1
    /\ stateFile[1].loopCount = 0

\* C18: the persisted loopCount never decreases; the in-memory loopCount
\* of a run grows by exactly 1 at each pass completion and changes at no
\* other step; a run that has ended leaves its loopCount in the file and
\* the next run's loadState takes it from there.
C18_LoopCountMonotonic ==
    /\ [][stateFile # <<>>
          => /\ stateFile' # <<>>
             /\ stateFile'[1].loopCount >= stateFile[1].loopCount]_vars
    /\ [][(pc = "pass_complete" /\ pc' # "pass_complete")
          => /\ engineState'.loopCount = engineState.loopCount + 1
             /\ stateFile'[1].loopCount = engineState'.loopCount]_vars
    /\ [][(pc \notin {"pass_complete", "load_state"} /\ pc' # "load_state")
          => engineState'.loopCount = engineState.loopCount]_vars
    /\ [](Ended => /\ stateFile # <<>>
                   /\ stateFile[1].loopCount = engineState.loopCount)
    /\ [][(pc = "load_state" /\ pc' # "load_state" /\ stateFile # <<>>)
          => engineState'.loopCount = stateFile[1].loopCount]_vars

\* two passes completed, the second run going on from the first's count
C18_Witness ==
    /\ runs = 2
    /\ pc = "await_playlist"
    /\ engineState.loopCount = 2
    /\ stateFile[1].loopCount = 2

\* position of clip c in the sequence s
IndexIn(s, c) == CHOOSE k \in 1..Len(s) : s[k] = c

\* C19: what the prune is about to write is the record it read with its
\* clips replaced by the non-breaking clips read (those of unrecognized
\* priority included), each once, fields unchanged, in the same relative
\* order; the write puts exactly that in the store.
C19_PruneKeepsTheRest ==
    /\ [][(pc = "pass_complete" /\ pc' = "prune_write")
          => /\ pl'.kind = store.kind
             /\ Range(pl'.clips) = Range(store.clips) \ Breaking(store.clips)
             /\ Len(pl'.clips) = Cardinality(Range(pl'.clips))
             /\ \A a, b \in 1..Len(pl'.clips) :
                    a < b => IndexIn(store.clips, pl'.clips[a])
                               < IndexIn(store.clips, pl'.clips[b])]_vars
    /\ [][(pc = "prune_write" /\ pc' # "prune_write") => store' = pl]_vars

\* the prune has read a store with a breaking clip, a normal clip and a
\* clip of unrecognized priority, and is about to write the latter two
C19_Witness ==
    /\ pc = "prune_write"
    /\ Breaking(store.clips) # {}
    /\ Len(pl.clips) = 2
    /\ \E c \in Range(pl.clips) : c.priority = "urgent"
    /\ \E c \in Range(pl.clips) : c.priority = "normal"
    /\ Range(pl.clips) \subseteq Range(store.clips)

\* C20: a clip that a producer adds between the prune's read and the
\* prune's write (it is in the store and not in what the prune is about to
\* write) is absent from the store after the write.
C20_LostUpdate ==
    [][(pc = "prune_write" /\ pc' # "prune_write")
       => \A c \in Range(store.clips) :
              c \notin Range(pl.clips) => c \notin Range(store'.clips)]_vars

\* between the prune's read and its write the store has got a
\* non-breaking clip that the prune has not read
C20_Witness ==
    /\ pc = "prune_write"
    /\ \E c \in Range(store.clips) :
           /\ c.priority # "breaking"
           /\ c \notin Range(pl.clips)

----------------------------------------------------------------------------
(* Claims about the pass plan, substitution and the store *)

\* C21: AWAIT_PLAYLIST goes to the polling wait only when the store is
\* unreadable, malformed or holds zero clips; whenever the store holds a
\* playlist with at least one clip, whatever the priorities of its clips,
\* it builds a pass with a base order that is not empty.
C21_PollsOnlyWhenNoClip ==
    [][(pc = "await_playlist" /\ pc' # "await_playlist" /\ engineState.running)
       => IF loadPlaylist(store) = Null \/ Len(store.clips) = 0
          THEN pc' = "poll_wait"
          ELSE pc' = "play_step" /\ Len(ordered') > 0]_vars

\* main() is inside the for loop or has just left it
InPass == pc \in {"play_step", "clip", "transition", "pass_complete"}

\* the playlist a step looks for breaking clips in
Reloaded == FreshOrSnapshot(loadPlaylist(store), playlist)

\* C22: the plan of a pass is fixed when the pass is built: the base order
\* does not change during the pass, the pass makes one clip attempt per
\* clip of the base order (step i is the attempt number i + 1, and the pass
\* completes after as many attempts as the base order has clips), whatever
\* the producers add or remove meanwhile; a step delivers the base-order
\* clip of its index unless it is a step i > 0 that delivers a breaking
\* clip, also when that clip is gone from the store; a clip that is not
\* breaking and was not in the playlist of the pass is never delivered.
C22_PlanIsFixed ==
    /\ [][(InPass /\ InPass') => (ordered' = ordered /\ playlist' = playlist)]_vars
    /\ [](pc = "play_step" => (Len(delivered) = i /\ i < Len(ordered)))
    /\ [](pc = "pass_complete" => Len(delivered) = Len(ordered))
    /\ [][StepTaken => \/ clip' = ordered[i + 1]
                       \/ (i > 0 /\ clip'.priority = "breaking")]_vars
    /\ [][(StepTaken /\ Breaking(Reloaded.clips) = {}) => clip' = ordered[i + 1]]_vars
    /\ [][(StepTaken /\ clip'.priority # "breaking")
          => clip' \in Range(playlist.clips)]_vars

\* a pass built from two clips has completed after two attempts, of its
\* two base-order clips, although the second one was removed from the
\* store before its step and a normal clip was added meanwhile
C22_Witness ==
    /\ pc = "pass_complete"
    /\ Len(ordered) = 2
    /\ delivered = <<ordered[1].id, ordered[2].id>>
    /\ store.kind = "ok"
    /\ ordered[2] \notin Range(store.clips)
    /\ \E c \in Range(store.clips) :
           c.priority = "normal" /\ c \notin Range(playlist.clips)

\* the clip of S with the greatest addedAt
Newest(S) == CHOOSE c \in S : \A d \in S : d.addedAt <= c.addedAt

\* the selection of a step i > 0 when every breaking clip of S is eligible
Unmarked(S, c, base, idx) ==
    IF S # {} THEN c = Newest(S) ELSE c = base[idx + 1]

C24_TransitionFailureIgnored ==
    /\ [][(pc = "transition" /\ pc' # "transition" /\ ~signalled')
          => /\ engineState' = engineState
             /\ stateFile' = stateFile
             /\ exitCode' = -1
             /\ IF i + 1 < Len(ordered)
                THEN pc' = "play_step" /\ i' = i + 1
                ELSE pc' = "pass_complete" /\ i' = i
             /\ UNCHANGED <<store, playlist, played, ordered, failed,
                            delivered, runs>>]_vars
    /\ [](lastTransition = "failed"
             => pc \in {"play_step", "pass_complete"} /\ exitCode = -1)

\* the transition after the successful first clip has failed and the loop
\* is at step 1, errors still 0 and clipsPlayed 1
C24_Witness ==
    /\ lastTransition = "failed"
    /\ pc = "play_step"
    /\ i = 1
    /\ engineState.errors = 0
    /\ engineState.clipsPlayed = 1

\* step k - 1 of the current pass delivered another clip than the
\* base-order clip of its index
Displaced(k) == delivered[k] # ordered[k].id

C26_NewestBreakingSubstitutes ==
    /\ [][(/\ StepTaken
           /\ i > 0
           /\ Cardinality(Breaking(loadPlaylist(store).clips)) >= 2)
          => /\ clip' \in Breaking(store.clips)
             /\ \A c \in Breaking(store.clips) : c.addedAt <= clip'.addedAt]_vars
    /\ [][(pc = "pass_complete" /\ pc' = "prune_write")
          => Breaking(pl'.clips) = {}]_vars
    /\ [][(pc = "prune_write" /\ pc' # "prune_write")
          => Breaking(store'.clips) = {}]_vars

\* step 1 delivers the newer breaking clip v although the base order has
\* the older breaking clip w at index 1, both being in the store
C26_Witness ==
    /\ pc = "clip"
    /\ i = 1
    /\ ordered[2].id = "w"
    /\ clip.id = "v"
    /\ {"v", "w"} \subseteq Ids(store.clips)

EngineVars ==
    <<stateFile, engineState, pc, playlist, played, ordered, i, clip, code,
      pl, inflight, failed, exitCode, runs, signalled, delivered,
      lastTransition>>

EngineStep == EngineVars' # EngineVars

\* the engine changes the store only by the write of the prune, which
\* puts there what the prune holds
C28_OnlyThePruneWrites ==
    [][(EngineStep /\ store' # store)
       => (pc = "prune_write" /\ pc' = "await_playlist" /\ store' = pl)]_vars

\* when the read at pass completion finds no playlist (file missing or
\* unparseable) nothing is written and the loop goes back to
\* AWAIT_PLAYLIST
C28_NoWriteAfterFailedRead ==
    [][(EngineStep /\ pc = "pass_complete" /\ store.kind \in {"missing", "malformed"})
       => (store' = store /\ pc' = "await_playlist")]_vars

\* no step of the engine turns a missing store file into an existing one
C28_NeverCreatesTheFile ==
    [][(EngineStep /\ store.kind = "missing") => store'.kind = "missing"]_vars

\* C28 as stated: the engine writes the store only at pass completion and
\* only when the read made there succeeds; no other step changes the
\* store; and the engine never creates the store file when it is missing.
C28_StoreWrittenOnlyAtPrune ==
    /\ C28_OnlyThePruneWrites
    /\ C28_NoWriteAfterFailedRead
    /\ C28_NeverCreatesTheFile

\* C28 as amended: the engine writes the store only at pass completion and
\* only when the read made there succeeds; no other step changes the
\* store; and when that read finds the file missing the engine does not
\* create it: the store is still missing when the loop is back at
\* AWAIT_PLAYLIST unless a producer wrote it.
C28_StoreWrittenOnlyAfterGoodRead ==
    /\ C28_OnlyThePruneWrites
    /\ C28_NoWriteAfterFailedRead
    /\ [][(pc = "pass_complete" /\ pc' = "prune_write") => store.kind = "ok"]_vars
    /\ [](pc = "prune_write" => pl.kind = "ok")

\* a pass has completed while the store file was missing: the loop is back
\* at AWAIT_PLAYLIST, no producer has written since, and the file is still
\* missing
C28_Witness ==
    /\ pruned
    /\ pc = "await_playlist"
    /\ store = FileMissing
    /\ engineState.loopCount = 1
    /\ engineState.clipsPlayed = 2

\* C29: the prune works on a fresh read: a clip that is not breaking and
\* is in the store at the prune's read without having been in the playlist
\* of the pass (a producer added it during the pass) is in what the prune
\* writes, is in the store after the write, and is in the base order
\* computed from the store as the prune leaves it (the next pass's).
C29_AddedClipSurvivesPrune ==
    /\ [][(pc = "pass_complete" /\ pc' = "prune_write")
          => \A c \in Range(store.clips) :
                 (c.priority # "breaking" /\ c \notin Range(playlist.clips))
                     => c \in Range(pl'.clips)]_vars
    /\ [][(pc = "prune_write" /\ pc' # "prune_write")
          => \A c \in Range(pl.clips) :
                 c \notin Range(playlist.clips)
                     => /\ c \in Range(store'.clips)
                        /\ c \in Range(getOrderedClips(loadPlaylist(store')))]_vars

\* the store holds a playlist with at least one clip
HoldsClips == store.kind = "ok" /\ Len(store.clips) >= 1

\* C30: while the store keeps holding a playlist with at least one clip
\* and no stop request ends the run, every pass that has started comes to
\* its completion and loopCount grows again and again (up to the bound of
\* the model): the engine stays for ever neither in a step nor in the
\* polling wait.
C30_Progress ==
    /\ (pc = "play_step") ~> (pc = "pass_complete" \/ Ended \/ AtBound)
    /\ (pc = "pass_complete") ~> (pc = "await_playlist" \/ ~HoldsClips \/ Ended)
    /\ \A n \in 0..MaxPlayed :
           (HoldsClips /\ ~Ended /\ engineState.loopCount = n)
               ~> \/ engineState.loopCount > n
                  \/ ~HoldsClips
                  \/ Ended
                  \/ AtBound

====
